---- MODULE Spec2Model ----
(***************************************************************************)
(* Model of the iperf2 data-plane core:                                    *)
(*   src/src/socket_io.c  readn, recvn, writen (retry loops over a socket) *)
(*   src/src/markov.c     markov_graph_init, markov_graph_next             *)
(*                                                                         *)
(* Part I models the socket primitives.  A primitive is a small process:   *)
(* it sits at its loop test (pc = "loop"), inside a transport call         *)
(* (pc = "call"), inside the peek branch's probe (pc = "probe"), or has    *)
(* returned (pc = "done").  The transport's answers and the setting of the *)
(* process-wide flag sInterupted are the environment's choices.            *)
(***************************************************************************)
EXTENDS Integers, Sequences, FiniteSets, TLC

\* ------------------------------------------------------------------ bounds
\* largest inLen a caller passes
MaxLen == 3
\* transport calls the environment answers within one invocation
MaxCalls == 4

\* --------------------------------------------------------- program constants
\* headers.h (not among the sources): the values the return statements use
SOCKET_ERROR == -1
IPERF_SOCKET_ERROR_NONFATAL == -2

\* errno values the transport can leave behind; "none" when the call succeeded
Errnos == {"EINTR", "EAGAIN", "EWOULDBLOCK", "ECONNRESET"}

\* FATALTCPREADERR(errno): the macro lives in headers.h; its policy is the
\* specification's: signal interruption and would-block are not fatal.
FATALTCPREADERR(e) == e \notin {"EINTR", "EAGAIN", "EWOULDBLOCK"}

\* the flags argument of recvn: MSG_PEEK given or not
RecvFlags == {"MSG_PEEK", "0"}

VARIABLES
    sInterupted,  \* the process-wide interrupt flag (0/1 as BOOLEAN)
    fn,           \* the primitive in progress: "none", "readn", "recvn", "writen"
                  \* or one of the writemsg entry points
    flags,        \* recvn's flags argument
    pc,           \* "idle", "start", "loop", "call", "probe", "done"
    inLen,        \* the request length
    nleft,        \* bytes still outstanding
    nread,        \* readn / recvn: last result, then the value returned
    nwritten,     \* writen: last result, then the value returned
    ptr,          \* offset of the buffer position from the buffer start
    wcount,       \* writen: *count, the caller's write-attempt counter
    ret,          \* the value returned (meaningful when pc = "done")
    calls,        \* history: the transport calls issued by this invocation
    results,      \* history: the answers they got
    taken,        \* history: the lengths of what those calls took off the
                  \* handle's receive queue (a message of length 0 counts)
    errlog,       \* what this invocation wrote to the standard error stream
    outlog,       \* what this invocation wrote to the standard output stream
    delay_ns,     \* writemsg_delay_tos: the delay argument
    tos_value,    \* writemsg_delay_tos: the TOS argument, -1 for none
    have_txtime,  \* whether the build has HAVE_DECL_SO_TXTIME
    fatal_seen    \* history: some recvn call of the process met a fatal error

iovars == <<sInterupted, fn, flags, pc, inLen, nleft, nread, nwritten, ptr,
            wcount, ret, calls, results, taken, errlog, outlog, delay_ns,
            tos_value, have_txtime, fatal_seen>>

VARIABLES
    mpc,         \* "none", "rows" (inside the row loop of markov_graph_init),
                 \* "built", "failed" (NULL returned), "ub" (undefined behaviour met)
    cell_float,  \* whether the prob_bound field of struct markov_entry (markov.h,
                 \* not among the sources) is a float; a double otherwise
    count,       \* graph->count, the bracnt of markov_graph_init
    kx,          \* the row markov_graph_init parses next
    entrys,      \* graph->entrys: row -> column -> [value, len, prob, prob_bound]
    cur_row,     \* graph->cur_row
    diag,        \* the diagnostics markov_graph_init wrote to stderr
    written_hi,  \* history: the highest column index a row parse stored to
    row_defects, \* history: for each row parsed, the defects its tokens have
    row_stores,  \* history: for each row parsed, the row length n, the number
                 \* cx of columns its parse stored to (0..cx-1) and whether the
                 \* end-of-row check of line 174 read its cell n-1
    sampled,     \* whether markov_graph_next has been called
    rnd,         \* what rand() returned to the last markov_graph_next
    from_row,    \* cur_row when the last markov_graph_next was entered
    scan_lo,     \* history: the lowest column index that call read
    scan_hi,     \* history: the highest column index that call read
    mret         \* the length the last markov_graph_next returned

mvars == <<mpc, cell_float, count, kx, entrys, cur_row, diag, written_hi,
           row_defects, row_stores, sampled, rnd, from_row, scan_lo, scan_hi,
           mret>>

\* what a transport call asked for len bytes can answer.  An answer of 0 to
\* a receive is the end of the stream, or (dgram) a datagram of length 0.
TransportResults(len) ==
    {[n |-> k, errno |-> "none", dgram |-> FALSE] : k \in 0..len}
        \cup {[n |-> SOCKET_ERROR, errno |-> e, dgram |-> FALSE] : e \in Errnos}

\* what the probe of the peek branch, a receive of one byte, can answer
ProbeResults == TransportResults(1) \cup {[n |-> 0, errno |-> "none", dgram |-> TRUE]}

\* a receive without MSG_PEEK takes what it returns off the receive queue:
\* the r.n bytes, or the empty datagram it answered 0 for
Taken(q, r) == IF r.n > 0 \/ (r.n = 0 /\ r.dgram) THEN Append(q, r.n) ELSE q

Issue(op, len) ==
    Append(calls, [op |-> op, off |-> ptr, len |-> len, intr |-> sInterupted])

InitIO ==
    /\ sInterupted = FALSE
    /\ fn = "none"
    /\ flags = "0"
    /\ pc = "idle"
    /\ inLen = 0
    /\ nleft = 0
    /\ nread = 0
    /\ nwritten = 0
    /\ ptr = 0
    /\ wcount = 0
    /\ ret = 0
    /\ calls = <<>>
    /\ results = <<>>
    /\ taken = <<>>
    /\ errlog = <<>>
    /\ outlog = <<>>
    /\ delay_ns = 0
    /\ tos_value = -1
    /\ have_txtime = FALSE
    /\ fatal_seen = FALSE

\* an end-of-stream return that reports the last read's 0
ShortCountDropped(len, nl) == 0

\* the count reported at end-of-stream: inLen - nleft       (lines 97, 191)
ShortCount(len, nl) == len - nl

\* ------------------------------------------------------------------ readn
\* entry: ptr = outBuf; nleft = inLen                     (socket_io.c 71-81)
ReadnCall(n) ==
    /\ UNCHANGED mvars
    /\ UNCHANGED fatal_seen
    /\ UNCHANGED <<taken, errlog, outlog, delay_ns, tos_value, have_txtime>>
    /\ pc = "idle"
    /\ fn' = "readn"
    /\ pc' = "loop"
    /\ inLen' = n
    /\ nleft' = n
    /\ ptr' = 0
    /\ UNCHANGED <<sInterupted, flags, nread, nwritten, wcount, ret, calls, results>>

\* a loop test that stops one byte early
ReadnGuardOffByOne(nl, intr) == nl > 1

\* while (nleft > 0)                                           (line 83)
ReadnGuard(nl, intr) == nl > 0

\* the loop test: either read(inSock, ptr, nleft) is issued, or the loop is
\* left and inLen - nleft returned                          (lines 83-84, 97)
ReadnLoop ==
    /\ UNCHANGED mvars
    /\ UNCHANGED fatal_seen
    /\ UNCHANGED <<taken, errlog, outlog, delay_ns, tos_value, have_txtime>>
    /\ fn = "readn" /\ pc = "loop"
    /\ IF ReadnGuard(nleft, sInterupted)
       THEN /\ Len(calls) < MaxCalls
            /\ pc' = "call"
            /\ calls' = Issue("read", nleft)
            /\ UNCHANGED ret
       ELSE /\ pc' = "done"
            /\ ret' = inLen - nleft
            /\ UNCHANGED calls
    /\ UNCHANGED <<sInterupted, fn, flags, inLen, nleft, nread, nwritten, ptr,
                   wcount, results>>

\* the body after read returned r                           (lines 85-94)
ReadnRead(r) ==
    /\ UNCHANGED mvars
    /\ UNCHANGED fatal_seen
    /\ taken' = Taken(taken, r)
    /\ UNCHANGED <<errlog, outlog, delay_ns, tos_value, have_txtime>>
    /\ fn = "readn" /\ pc = "call"
    /\ r \in TransportResults(calls[Len(calls)].len)
    /\ results' = Append(results, r)
    /\ IF r.n < 0
       THEN IF r.errno = "EINTR"
            THEN \* nread = 0; nleft -= 0; ptr += 0
                 /\ nread' = 0
                 /\ pc' = "loop"
                 /\ UNCHANGED <<nleft, ptr, ret>>
            ELSE /\ nread' = r.n
                 /\ pc' = "done"
                 /\ ret' = SOCKET_ERROR
                 /\ UNCHANGED <<nleft, ptr>>
       ELSE IF r.n = 0
            THEN \* EOF: break, return inLen - nleft
                 /\ nread' = 0
                 /\ pc' = "done"
                 /\ ret' = ShortCount(inLen, nleft)
                 /\ UNCHANGED <<nleft, ptr>>
            ELSE /\ nread' = r.n
                 /\ nleft' = nleft - r.n
                 /\ ptr' = ptr + r.n
                 /\ pc' = "loop"
                 /\ UNCHANGED ret
    /\ UNCHANGED <<sInterupted, fn, flags, inLen, nwritten, wcount, calls>>

\* ------------------------------------------------------------------ recvn
\* entry: nread = 0; ptr = outBuf; nleft = inLen         (socket_io.c 106-116)
RecvnCall(n, f) ==
    /\ UNCHANGED mvars
    /\ UNCHANGED fatal_seen
    /\ UNCHANGED <<taken, errlog, outlog, delay_ns, tos_value, have_txtime>>
    /\ pc = "idle"
    /\ fn' = "recvn"
    /\ flags' = f
    /\ pc' = "loop"
    /\ inLen' = n
    /\ nleft' = n
    /\ nread' = 0
    /\ ptr' = 0
    /\ UNCHANGED <<sInterupted, nwritten, wcount, ret, calls, results>>

\* a peek loop that is left as soon as a peek answered anything but 0
RecvnPeekGuardUntilData(nl, nr, intr) == nr = 0 /\ ~intr

\* while ((nleft != nread) && !sInterupted)                    (line 119)
RecvnPeekGuard(nl, nr, intr) == nl # nr /\ ~intr

\* a loop test that forgets the flag
RecvnGuardNoFlag(nl, intr) == nl > 0

\* while ((nleft > 0) && !sInterupted)                         (line 165)
RecvnGuard(nl, intr) == nl > 0 /\ ~intr

\* the loop test of either branch: recv is issued for nleft bytes at ptr, or
\* the loop is left and DONE returns nread           (lines 119-120, 165-167)
RecvnLoop ==
    /\ UNCHANGED mvars
    /\ UNCHANGED fatal_seen
    /\ UNCHANGED <<taken, errlog, outlog, delay_ns, tos_value, have_txtime>>
    /\ fn = "recvn" /\ pc = "loop"
    /\ IF (IF flags = "MSG_PEEK" THEN RecvnPeekGuard(nleft, nread, sInterupted)
                                 ELSE RecvnGuard(nleft, sInterupted))
       THEN /\ Len(calls) < MaxCalls
            /\ pc' = "call"
            /\ calls' = Issue(IF flags = "MSG_PEEK" THEN "peek" ELSE "recv", nleft)
            /\ UNCHANGED ret
       ELSE /\ pc' = "done"
            /\ ret' = nread
            /\ UNCHANGED calls
    /\ UNCHANGED <<sInterupted, fn, flags, inLen, nleft, nread, nwritten, ptr,
                   wcount, results>>

\* peek branch, after recv(inSock, ptr, nleft, flags) returned r
\*                                                          (lines 121-160)
RecvnPeekRecv(r) ==
    /\ UNCHANGED mvars
    /\ fatal_seen' = (fatal_seen \/ (r.n = SOCKET_ERROR /\ FATALTCPREADERR(r.errno)))
    /\ errlog' = (IF r.n = SOCKET_ERROR /\ FATALTCPREADERR(r.errno)
                  THEN Append(errlog, "recvn peek")
                  ELSE IF r.n = 0
                  THEN Append(errlog, "recvn peek checking connection status")
                  ELSE errlog)
    /\ UNCHANGED <<taken, outlog, delay_ns, tos_value, have_txtime>>
    /\ fn = "recvn" /\ flags = "MSG_PEEK" /\ pc = "call"
    /\ r \in TransportResults(calls[Len(calls)].len)
    /\ results' = Append(results, r)
    /\ nread' = r.n
    /\ IF r.n = SOCKET_ERROR
       THEN IF FATALTCPREADERR(r.errno)
            THEN \* nread = SOCKET_ERROR; sInterupted = 1; goto DONE
                 /\ sInterupted' = TRUE
                 /\ pc' = "done"
                 /\ ret' = SOCKET_ERROR
                 /\ UNCHANGED calls
            ELSE \* break: the loop test sees nread = -1
                 /\ pc' = "loop"
                 /\ UNCHANGED <<sInterupted, ret, calls>>
       ELSE IF r.n = 0
            THEN \* recv(inSock, &test_byte, 1, MSG_DONTWAIT) is issued
                 /\ pc' = "probe"
                 /\ calls' = Issue("probe", 1)
                 /\ UNCHANGED <<sInterupted, ret>>
            ELSE /\ pc' = "loop"
                 /\ UNCHANGED <<sInterupted, ret, calls>>
    /\ UNCHANGED <<fn, flags, inLen, nleft, nwritten, ptr, wcount>>

\* peek branch, after the probe returned t               (lines 141-157)
\* test_recv == 0 goes to DONE; would-block breaks; anything else reaches
\* the break of line 157 as well
RecvnPeekProbe(t) ==
    /\ UNCHANGED mvars
    /\ UNCHANGED fatal_seen
    /\ taken' = Taken(taken, t)
    /\ UNCHANGED <<errlog, outlog, delay_ns, tos_value, have_txtime>>
    /\ fn = "recvn" /\ pc = "probe"
    /\ t \in ProbeResults
    /\ results' = Append(results, t)
    /\ IF t.n = 0
       THEN /\ pc' = "done"
            /\ ret' = nread
       ELSE /\ pc' = "loop"
            /\ UNCHANGED ret
    /\ UNCHANGED <<sInterupted, fn, flags, inLen, nleft, nread, nwritten, ptr,
                   wcount, calls>>

\* an error case that breaks out of the switch on a non-fatal error
RecvnOnErrorRetry(e) ==
    IF FATALTCPREADERR(e)
    THEN [nread |-> SOCKET_ERROR, setflag |-> TRUE, done |-> TRUE]
    ELSE [nread |-> IPERF_SOCKET_ERROR_NONFATAL, setflag |-> FALSE, done |-> FALSE]

\* an error case that returns the fatal error without setting the flag
RecvnOnErrorNoFlag(e) ==
    IF FATALTCPREADERR(e)
    THEN [nread |-> SOCKET_ERROR, setflag |-> FALSE, done |-> TRUE]
    ELSE [nread |-> IPERF_SOCKET_ERROR_NONFATAL, setflag |-> FALSE, done |-> TRUE]

\* blocking branch, case SOCKET_ERROR: what nread becomes, whether the flag
\* is set, and whether control goes to DONE              (lines 172-186)
RecvnOnError(e) ==
    IF FATALTCPREADERR(e)
    THEN [nread |-> SOCKET_ERROR, setflag |-> TRUE, done |-> TRUE]
    ELSE [nread |-> IPERF_SOCKET_ERROR_NONFATAL, setflag |-> FALSE, done |-> TRUE]

\* blocking branch, after recv(inSock, ptr, nleft, MSG_WAITALL) returned r
\*                                                          (lines 171-199)
RecvnRecv(r) ==
    /\ UNCHANGED mvars
    /\ fatal_seen' = (fatal_seen \/ (r.n = SOCKET_ERROR /\ FATALTCPREADERR(r.errno)))
    /\ taken' = Taken(taken, r)
    /\ errlog' = (IF r.n = SOCKET_ERROR /\ FATALTCPREADERR(r.errno)
                  THEN Append(errlog, "recvn") ELSE errlog)
    /\ UNCHANGED <<outlog, delay_ns, tos_value, have_txtime>>
    /\ fn = "recvn" /\ flags # "MSG_PEEK" /\ pc = "call"
    /\ r \in TransportResults(calls[Len(calls)].len)
    /\ results' = Append(results, r)
    /\ IF r.n = SOCKET_ERROR
       THEN LET o == RecvnOnError(r.errno) IN
            /\ sInterupted' = (sInterupted \/ o.setflag)
            /\ IF o.done
               THEN /\ nread' = o.nread
                    /\ pc' = "done"
                    /\ ret' = o.nread
               ELSE \* break; nread = inLen - nleft
                    /\ nread' = inLen - nleft
                    /\ pc' = "loop"
                    /\ UNCHANGED ret
            /\ UNCHANGED <<nleft, ptr>>
       ELSE IF r.n = 0
            THEN \* peer close: nread = inLen - nleft; goto DONE
                 /\ nread' = ShortCount(inLen, nleft)
                 /\ pc' = "done"
                 /\ ret' = ShortCount(inLen, nleft)
                 /\ UNCHANGED <<sInterupted, nleft, ptr>>
            ELSE \* nleft -= nread; ptr += nread; nread = inLen - nleft
                 /\ nleft' = nleft - r.n
                 /\ ptr' = ptr + r.n
                 /\ nread' = inLen - (nleft - r.n)
                 /\ pc' = "loop"
                 /\ UNCHANGED <<sInterupted, ret>>
    /\ UNCHANGED <<fn, flags, inLen, nwritten, wcount, calls>>

\* ------------------------------------------------------------------ writen
\* entry: ptr = inBuf; nleft = inLen; nwritten = 0      (socket_io.c 214-226)
\* *count is the caller's counter, taken to start at 0
WritenCall(n) ==
    /\ UNCHANGED mvars
    /\ UNCHANGED fatal_seen
    /\ UNCHANGED <<taken, errlog, outlog, delay_ns, tos_value, have_txtime>>
    /\ pc = "idle"
    /\ fn' = "writen"
    /\ pc' = "loop"
    /\ inLen' = n
    /\ nleft' = n
    /\ nwritten' = 0
    /\ ptr' = 0
    /\ wcount' = 0
    /\ UNCHANGED <<sInterupted, flags, nread, ret, calls, results>>

\* a loop test that forgets the flag
WritenGuardNoFlag(nl, intr) == nl > 0

\* while ((nleft > 0) && !sInterupted)                         (line 228)
WritenGuard(nl, intr) == nl > 0 /\ ~intr

\* an error test that retries a signal interruption only
WritenRetryEintrOnly(e) == e = "EINTR"

\* the errors writen retries                                   (line 234)
WritenRetryErrno(e) == e \in {"EINTR", "EAGAIN", "EWOULDBLOCK"}

\* the loop test: write(inSock, ptr, nleft) is issued, or the loop is left
\* and DONE returns nwritten                          (lines 228-229, 252)
WritenLoop ==
    /\ UNCHANGED mvars
    /\ UNCHANGED fatal_seen
    /\ UNCHANGED <<taken, errlog, outlog, delay_ns, tos_value, have_txtime>>
    /\ fn = "writen" /\ pc = "loop"
    /\ IF WritenGuard(nleft, sInterupted)
       THEN /\ Len(calls) < MaxCalls
            /\ pc' = "call"
            /\ calls' = Issue("write", nleft)
            /\ UNCHANGED ret
       ELSE /\ pc' = "done"
            /\ ret' = nwritten
            /\ UNCHANGED calls
    /\ UNCHANGED <<sInterupted, fn, flags, inLen, nleft, nread, nwritten, ptr,
                   wcount, results>>

\* the body after write returned r                        (lines 230-249)
WritenWrite(r) ==
    /\ UNCHANGED mvars
    /\ UNCHANGED fatal_seen
    /\ outlog' = (IF r.n = SOCKET_ERROR /\ ~WritenRetryErrno(r.errno)
                  THEN Append(outlog, "FAIL: writen errno") ELSE outlog)
    /\ UNCHANGED <<taken, errlog, delay_ns, tos_value, have_txtime>>
    /\ fn = "writen" /\ pc = "call"
    /\ r \in TransportResults(calls[Len(calls)].len)
    /\ results' = Append(results, r)
    /\ wcount' = wcount + 1
    /\ IF r.n = SOCKET_ERROR
       THEN IF ~WritenRetryErrno(r.errno)
            THEN \* nwritten = inLen - nleft; FAIL is printed; goto DONE
                 /\ nwritten' = inLen - nleft
                 /\ pc' = "done"
                 /\ ret' = inLen - nleft
                 /\ UNCHANGED <<nleft, ptr>>
            ELSE \* break; nwritten = inLen - nleft
                 /\ nwritten' = inLen - nleft
                 /\ pc' = "loop"
                 /\ UNCHANGED <<nleft, ptr, ret>>
       ELSE IF r.n = 0
            THEN \* write timeout - retry
                 /\ nwritten' = inLen - nleft
                 /\ pc' = "loop"
                 /\ UNCHANGED <<nleft, ptr, ret>>
            ELSE \* nleft -= nwritten; ptr += nwritten; nwritten = inLen - nleft
                 /\ nleft' = nleft - r.n
                 /\ ptr' = ptr + r.n
                 /\ nwritten' = inLen - (nleft - r.n)
                 /\ pc' = "loop"
                 /\ UNCHANGED ret
    /\ UNCHANGED <<sInterupted, fn, flags, inLen, nread, calls>>

\* ------------------------------------------------------ writemsg_delay_tos
\* the three entry points: writemsg_tos passes delay_ns = 0 and
\* writemsg_delay passes tos_value = -1                 (lines 262, 366-371)
WritemsgFns == {"writemsg_delay_tos", "writemsg_tos", "writemsg_delay"}

\* the delay_ns and tos_value arguments tried: no delay and a delay, no TOS
\* and a TOS
Delays == {0, 1}
TosValues == {-1, 16}

\* errno values sendmsg and write can leave behind
SendErrnos == Errnos \cup {"EINVAL", "ENOTSUP", "EPERM"}

\* what sendmsg, or the stub's write, can answer for len bytes
SendResults(len) ==
    {[n |-> k, errno |-> "none", dgram |-> FALSE] : k \in 0..len}
        \cup {[n |-> SOCKET_ERROR, errno |-> e, dgram |-> FALSE] : e \in SendErrnos}

\* the control records of the message: SCM_TXTIME when a delay is asked
\* for, IP_TOS when a TOS is given                          (lines 291-320)
Control(d, t) ==
    (IF d > 0 THEN <<"SCM_TXTIME">> ELSE <<>>) \o (IF t >= 0 THEN <<"IP_TOS">> ELSE <<>>)

\* the diagnostic for a failed sendmsg                      (lines 338-346)
SendDiagnostic(e) ==
    CASE e = "EINVAL" -> "writemsg_delay: control message not configured on socket"
      [] e = "ENOTSUP" -> "writemsg_delay: control message not supported by kernel/driver"
      [] e = "EPERM" -> "writemsg_delay: permission denied"
      [] OTHER -> "writemsg_delay sendmsg failed"

\* a failed send reported as nothing sent
SendFailureReturnsZero(e) == 0

\* return -1 after a failed sendmsg                             (line 347)
SendFailureReturn(e) == -1

\* a stub that reports the whole buffer as written
StubReturnAll(len, r) == len

\* the stub: return write(inSock, inBuf, inLen)                 (line 357)
StubReturn(len, r) == r.n

\* entry through f with the buffer length n, the delay d and the TOS t, in
\* a build with (have) or without HAVE_DECL_SO_TXTIME
WritemsgCall(f, n, d, t, have) ==
    /\ UNCHANGED mvars
    /\ UNCHANGED fatal_seen
    /\ pc = "idle"
    /\ f \in WritemsgFns
    /\ f = "writemsg_tos" => d = 0
    /\ f = "writemsg_delay" => t = -1
    /\ fn' = f
    /\ pc' = "start"
    /\ inLen' = n
    /\ nleft' = n
    /\ ptr' = 0
    /\ delay_ns' = d
    /\ tos_value' = t
    /\ have_txtime' = have
    /\ UNCHANGED <<sInterupted, flags, nread, nwritten, wcount, ret, calls, results,
                   taken, errlog, outlog>>

\* up to the send call: the stub warns and issues write; the full build
\* reads the clock when a delay is asked for (clock_ok: clock_gettime
\* returned 0), attaches the control records and issues sendmsg
\*                                                    (lines 271-335, 355-357)
WritemsgPrepare(clock_ok) ==
    /\ UNCHANGED mvars
    /\ UNCHANGED fatal_seen
    /\ fn \in WritemsgFns /\ pc = "start"
    /\ ~clock_ok => (have_txtime /\ delay_ns > 0)
    /\ IF ~have_txtime
       THEN /\ errlog' = Append(errlog,
                   "writemsg_delay: control messages not supported on this platform")
            /\ calls' = Issue("write", inLen)
            /\ pc' = "call"
            /\ UNCHANGED ret
       ELSE IF delay_ns > 0 /\ ~clock_ok
       THEN /\ errlog' = Append(errlog, "writemsg_delay clock_gettime failed")
            /\ ret' = -1
            /\ pc' = "done"
            /\ UNCHANGED calls
       ELSE /\ calls' = Append(calls, [op |-> "sendmsg", off |-> ptr, len |-> inLen,
                                       intr |-> sInterupted,
                                       ctl |-> Control(delay_ns, tos_value)])
            /\ pc' = "call"
            /\ UNCHANGED <<errlog, ret>>
    /\ UNCHANGED <<sInterupted, fn, flags, inLen, nleft, nread, nwritten, ptr, wcount,
                   results, taken, outlog, delay_ns, tos_value, have_txtime>>

\* after the send call answered r: its result is returned, -1 with a
\* diagnostic when sendmsg failed                     (lines 336-350, 357)
WritemsgSent(r) ==
    /\ UNCHANGED mvars
    /\ UNCHANGED fatal_seen
    /\ fn \in WritemsgFns /\ pc = "call"
    /\ r \in SendResults(inLen)
    /\ results' = Append(results, r)
    /\ pc' = "done"
    /\ IF have_txtime
       THEN IF r.n < 0
            THEN /\ errlog' = Append(errlog, SendDiagnostic(r.errno))
                 /\ ret' = SendFailureReturn(r.errno)
            ELSE /\ ret' = r.n
                 /\ UNCHANGED errlog
       ELSE /\ ret' = StubReturn(inLen, r)
            /\ UNCHANGED errlog
    /\ UNCHANGED <<sInterupted, fn, flags, inLen, nleft, nread, nwritten, ptr, wcount,
                   calls, taken, outlog, delay_ns, tos_value, have_txtime>>

\* ------------------------------------------------------------------ external
\* any external actor (signal handler, controller thread) sets the flag
SetInterrupt ==
    /\ UNCHANGED mvars
    /\ UNCHANGED fatal_seen
    /\ UNCHANGED <<taken, errlog, outlog, delay_ns, tos_value, have_txtime>>
    /\ ~sInterupted
    /\ sInterupted' = TRUE
    /\ UNCHANGED <<fn, flags, pc, inLen, nleft, nread, nwritten, ptr, wcount,
                   ret, calls, results>>

\* the caller takes the returned value; the next invocation starts afresh
Return ==
    /\ UNCHANGED mvars
    /\ UNCHANGED fatal_seen
    /\ taken' = <<>>
    /\ errlog' = <<>>
    /\ outlog' = <<>>
    /\ delay_ns' = 0
    /\ tos_value' = -1
    /\ have_txtime' = FALSE
    /\ pc = "done"
    /\ pc' = "idle"
    /\ fn' = "none"
    /\ flags' = "0"
    /\ inLen' = 0
    /\ nleft' = 0
    /\ nread' = 0
    /\ nwritten' = 0
    /\ ptr' = 0
    /\ wcount' = 0
    /\ ret' = 0
    /\ calls' = <<>>
    /\ results' = <<>>
    /\ UNCHANGED sInterupted

(***************************************************************************)
(* Part II: the Markov graph of src/src/markov.c.                          *)
(*                                                                         *)
(* Numbers.  A probability is a double holding the float strtof returned;  *)
(* a bound is a double sum of such floats.  The model keeps them as        *)
(* integers in units of 2^-27: every float in [2^-4, 2) is a multiple of   *)
(* that unit and the double sums of such floats are exact, so comparisons  *)
(* at a bound come out as in the build.  Floats below 2^-4 are kept to the *)
(* nearest unit (off by less than 4e-9, far from every threshold used).    *)
(***************************************************************************)

\* ------------------------------------------------------------------ bounds
\* largest number of <-introduced declarations in a specification string
MaxStates == 3
\* how far below column 0 an out-of-bounds backward walk is followed
MaxUnder == 2

\* 1.0 in units of 2^-27
ONE == 2 ^ 27
\* one million: the tokens of a specification are decimals given in millionths
Million == 10 ^ 6

\* #define FLOATTOLERANCE 0.00001 is 1342.17728 units: for a whole number x of
\* units, x < 0.00001 is x <= 1342 and x > 0.00001 is x > 1342
FLOATTOLERANCE == 1342

Abs(x) == IF x < 0 THEN -x ELSE x

\* #define FloatEqualZero(val) (fabs(val) < FLOATTOLERANCE)
FloatEqualZero(val) == Abs(val) <= FLOATTOLERANCE
\* #define FloatLessThanZero(val) (val < 0.0)
FloatLessThanZero(val) == val < 0
\* #define FloatLessThanOne(val) ((1.0 - val) > FLOATTOLERANCE)
FloatLessThanOne(val) == (ONE - val) > FLOATTOLERANCE
\* #define FloatGreaterThanOne(val) ((val - 1.0) > FLOATTOLERANCE)
FloatGreaterThanOne(val) == (val - ONE) > FLOATTOLERANCE

RECURSIVE BitLen(_)
\* number of binary digits of x >= 0
BitLen(x) == IF x = 0 THEN 0 ELSE 1 + BitLen(x \div 2)

RECURSIVE LongDiv(_, _, _)
\* k binary digits of the fraction x / Million (0 <= x < Million) by long
\* division: [q |-> the digits as a number, rem |-> what is left, over Million]
LongDiv(x, k, q) ==
    IF k = 0 THEN [q |-> q, rem |-> x]
    ELSE LongDiv((2 * x) % Million, k - 1, 2 * q + (IF 2 * x >= Million THEN 1 ELSE 0))

\* round-to-nearest-even of the number Q + rem/Million to a multiple of 2^s
RoundAt(Q, rem, s) ==
    LET p == 2 ^ s
        low == Q % p
        base == Q - low
        \* compare low + rem/Million with p/2
        cmp == IF s = 0
               THEN (IF 2 * rem > Million THEN 1 ELSE IF 2 * rem = Million THEN 0 ELSE -1)
               ELSE (IF low > p \div 2 \/ (low = p \div 2 /\ rem > 0) THEN 1
                     ELSE IF low = p \div 2 /\ rem = 0 THEN 0 ELSE -1)
        up == cmp = 1 \/ (cmp = 0 /\ (base \div p) % 2 = 1)
    IN  IF up THEN base + p ELSE base

\* strtof on the decimal d/Million, d >= 0: the nearest float (24 significant
\* binary digits), in units of 2^-27
StrToFPos(d) ==
    LET fr == LongDiv(d % Million, 27, 0)
        Q == (d \div Million) * ONE + fr.q
        s == IF BitLen(Q) > 24 THEN BitLen(Q) - 24 ELSE 0
    IN  RoundAt(Q, fr.rem, s)

\* strtof(found, &end): the value of the numeral the token starts with
StrToF(d) == IF d < 0 THEN -StrToFPos(-d) ELSE StrToFPos(d)

\* RAND_MAX of the C library (glibc); (float)RAND_MAX is 2^31
RAND_MAX == 2147483647

\* (float)rand() / (float)(RAND_MAX) for rand() = k: k rounded to 24
\* significant binary digits, over 2^31.  The quotient is exact; it is kept as
\* q units of 2^-27 plus, when f, a positive fraction of a unit.
PullRand(k) ==
    LET s == IF BitLen(k) > 24 THEN BitLen(k) - 24 ELSE 0
        p == 2 ^ s
        low == k % p
        base == k - low
        up == s > 0 /\ (low > p \div 2 \/ (low = p \div 2 /\ (base \div p) % 2 = 1))
    IN  IF s >= 4
        THEN [q |-> base \div 16 + (IF up THEN p \div 16 ELSE 0), f |-> FALSE]
        ELSE LET kf == base + (IF up THEN p ELSE 0)
             IN  [q |-> kf \div 16, f |-> kf % 16 # 0]

\* prob_bound <= pull_rand: the comparison of line 206 made inclusive
BoundLessOrEqual(bound, r) == bound <= r.q

\* prob_bound < pull_rand, the double against the float
BoundLessThan(bound, r) == bound < r.q \/ (bound = r.q /\ r.f)

\* ------------------------------------------------- specification strings
\* A specification string is given as already cut at '<', '|' and ',': the
\* number of declarations, and for each declaration its length and its list of
\* probability tokens.  A token is the decimal it starts with, d/Million, and
\* whether nothing follows the numeral (clean).
Tok(d) == [d |-> d, clean |-> TRUE]

\* tokens of the rows of small graphs: 0, 0.000009, 0.5, 1, 1.000009, 1.5,
\* -0.1 and "0.5x"
WideToks ==
    {Tok(d) : d \in {0, 9, 500000, 1000000, 1000009, 1500000, -100000}}
        \cup {[d |-> 500000, clean |-> FALSE]}

\* tokens of the rows of larger graphs: 0 and 0.5
NarrowToks == {Tok(0), Tok(500000)}

\* the state counts whose rows are drawn from WideToks, a token short or long
WideCounts == {1, 2}

\* <256|0.1,0.7,0.2<1024|0.3,0.4,0.3<1470|0.4,0.4,0.2   (markov.c line 219)
ExampleRows ==
    << <<Tok(100000), Tok(700000), Tok(200000)>>,
       <<Tok(300000), Tok(400000), Tok(300000)>>,
       <<Tok(400000), Tok(400000), Tok(200000)>> >>

\* a row whose middle column is below the tolerance: 0.5, 0.000009, 0.5
TieRows == {<<Tok(500000), Tok(9), Tok(500000)>>}

\* the declared length of the k-th declaration (k from 0): atoi(pos)
LabelOf(k) ==
    CASE k = 0 -> 256
      [] k = 1 -> 1024
      [] k = 2 -> 1470
      [] OTHER -> 1470 + k

\* the token lists a row of an n-state specification is drawn from
RowInputs(n) ==
    IF n \in WideCounts
    THEN UNION {[1..k -> WideToks] : k \in (n - 1)..(n + 1)}
    ELSE [1..n -> NarrowToks]
            \cup (IF n = Len(ExampleRows)
                  THEN {ExampleRows[i] : i \in 1..n} \cup TieRows ELSE {})

\* what a cell of a freshly malloc'ed row can hold before it is stored to:
\* a zero-filled page, or what an earlier allocation left there
JunkCells == {[prob |-> 0, prob_bound |-> 0], [prob |-> ONE \div 2, prob_bound |-> ONE]}

\* the values rand() returns that are tried: 0, 1, the values whose quotient
\* is at, just below and just above 0.1f, 0.5, 0.8f and 1.0
Rands ==
    {0, 1,
     214748352, 214748368, 214748384,
     1073741760, 1073741824, 1073741952,
     1717986816, 1717986944,
     2147483520, RAND_MAX}

\* the decimals that occur in the tokens above
Decimals ==
    {t.d : t \in WideToks \cup NarrowToks}
        \cup {ExampleRows[i][j].d : i \in 1..Len(ExampleRows), j \in 1..Len(ExampleRows)}

\* strtof and the draw, tabulated over the inputs that are tried
FloatOf == [d \in Decimals |-> StrToF(d)]
DrawOf == [k \in Rands |-> PullRand(k)]

\* ------------------------------------------------------ markov_graph_init
InitMarkov ==
    /\ mpc = "none"
    /\ cell_float = FALSE
    /\ count = 0
    /\ kx = 0
    /\ entrys = <<>>
    /\ cur_row = 0
    /\ diag = {}
    /\ written_hi = -1
    /\ row_defects = <<>>
    /\ row_stores = <<>>
    /\ sampled = FALSE
    /\ rnd = 0
    /\ from_row = 0
    /\ scan_lo = 0
    /\ scan_hi = 0
    /\ mret = 0

\* calloc of the graph, the strtok count of the declarations and, when there
\* is one at least, the allocation of the rows            (markov.c 99-127)
\* With no declaration the if of line 116 is skipped and the calloc'ed graph
\* (count 0, entrys NULL) is returned.
MarkovInitCount(n, w) ==
    /\ UNCHANGED iovars
    /\ mpc = "none"
    /\ cell_float' = w
    /\ count' = n
    /\ cur_row' = 0
    /\ kx' = 0
    /\ IF n > 0
       THEN /\ mpc' = "rows"
            /\ entrys' = [r \in 0..(n - 1) |-> <<>>]
       ELSE /\ mpc' = "built"
            /\ entrys' = <<>>
    /\ UNCHANGED <<diag, written_hi, row_defects, row_stores, sampled, rnd,
                   from_row, scan_lo, scan_hi, mret>>

\* the double x >= 0 as the nearest float
RoundFloat(x) == RoundAt(x, 0, IF BitLen(x) > 24 THEN BitLen(x) - 24 ELSE 0)

\* the store to tmp[kx][cx].prob_bound: a float field rounds the double sum
StoreBound(x) == IF cell_float THEN RoundFloat(x) ELSE x

RECURSIVE ParseCols(_, _, _, _)
\* the while (found != NULL) loop over the tokens of one row: cx tokens are
\* done, prevtot is the bound so far                      (lines 142-170)
\* A store to a column the row does not have (cx >= count) leaves the row as
\* it is; written_hi records it.
ParseCols(toks, cx, prevtot, row) ==
    IF cx >= Len(toks)
    THEN [err |-> "none", row |-> row, cx |-> cx]
    ELSE LET tok == toks[cx + 1]
             prob == FloatOf[tok.d]
             bound == StoreBound(IF FloatEqualZero(prob) THEN prevtot ELSE prob + prevtot)
             stored == IF cx \in DOMAIN row
                       THEN [row EXCEPT ![cx].prob = prob, ![cx].prob_bound = bound]
                       ELSE row
         IN  IF ~tok.clean
             THEN [err |-> "Invalid value", row |-> row, cx |-> cx + 1]
             ELSE IF FloatLessThanZero(prob) \/ FloatGreaterThanOne(prob)
             THEN [err |-> "Probability must be between 0 and 1", row |-> row, cx |-> cx + 1]
             ELSE IF FloatGreaterThanOne(bound)
             THEN [err |-> "Cummulative probability greater than 1", row |-> row, cx |-> cx + 1]
             ELSE ParseCols(toks, cx + 1, bound, stored)

\* a second pass that labels a cell with the length of its row's state
FillValuesByRow(m, n) ==
    [rx \in 0..(n - 1) |-> [cx \in 0..(n - 1) |-> [m[rx][cx] EXCEPT !.value = m[rx][0].len]]]

\* the second pass: tmp[rx][cx].value = tmp[cx][0].len     (lines 188-192)
FillValues(m, n) ==
    [rx \in 0..(n - 1) |-> [cx \in 0..(n - 1) |-> [m[rx][cx] EXCEPT !.value = m[cx][0].len]]]

Max(a, b) == IF a > b THEN a ELSE b
Min(a, b) == IF a < b THEN a ELSE b

\* 1e-5 in millionths: the tolerance on a row written in decimals
DecimalTolerance == 10

RECURSIVE DecimalSum(_, _)
\* the sum, in millionths, of the first k numerals of a row as written
DecimalSum(toks, k) == IF k = 0 THEN 0 ELSE DecimalSum(toks, k - 1) + toks[k].d

\* what is wrong with a row of the specification string as written: a token
\* that is not a numeral, a numeral outside [0,1], a running sum above 1.0
\* beyond the tolerance, a total that stays below 1.0 beyond the tolerance
Defects(toks) ==
    (IF \E i \in 1..Len(toks) : ~toks[i].clean THEN {"non-numeric"} ELSE {})
    \cup (IF \E i \in 1..Len(toks) : toks[i].d < 0 \/ toks[i].d > Million
          THEN {"out-of-range"} ELSE {})
    \cup (IF \E k \in 1..Len(toks) : DecimalSum(toks, k) > Million + DecimalTolerance
          THEN {"overflow"} ELSE {})
    \cup (IF DecimalSum(toks, Len(toks)) < Million - DecimalTolerance
          THEN {"incomplete"} ELSE {})

\* ERR_EXIT after markov_graph_free(graph); graph = NULL
InitFails(msgs) ==
    /\ mpc' = "failed"
    /\ entrys' = <<>>
    /\ count' = 0
    /\ kx' = 0
    /\ diag' = diag \cup msgs

\* one pass of the while (kx < bracnt) loop: the row's length, its tokens,
\* the two end-of-row checks; after the last row the second pass and the
\* return of the graph                                      (lines 129-198)
\* junk is what malloc left in the cells the tokens do not reach.
\* Line 144 stores to tmp[kx][cx] for every token, cx unchecked against bracnt:
\* a row of more tokens than bracnt stores behind the row's allocation.  What
\* lies there (the heap's bookkeeping, the next row, the token list being cut)
\* decides what follows: either the parse goes on as if the store had not
\* happened, or something else does, which is not followed further (mpc =
\* "ub", entered at the first such store).
\* The copy the tokens are cut from is strcpy'ed into strlen(braket_option + 1)
\* bytes, two bytes short (line 101): its terminating NUL lies outside the
\* allocation, and when a later malloc has written there (ovf) the last token
\* of the last row runs on into those bytes.
MarkovInitRow(toks, junk, ovf) ==
    /\ UNCHANGED iovars
    /\ mpc = "rows"
    /\ toks \in RowInputs(count)
    /\ junk \in [Len(toks)..(count - 1) -> JunkCells]
    /\ ovf => (kx = count - 1 /\ Len(toks) > 0)
    /\ LET fresh == [c \in 0..(count - 1) |->
                        IF c \in DOMAIN junk
                        THEN [value |-> 0, len |-> 0, prob |-> junk[c].prob,
                              prob_bound |-> junk[c].prob_bound]
                        ELSE [value |-> 0, len |-> 0, prob |-> 0, prob_bound |-> 0]]
           row0 == [fresh EXCEPT ![0].value = LabelOf(kx), ![0].len = LabelOf(kx)]
           seen == IF ovf THEN [toks EXCEPT ![Len(toks)].clean = FALSE] ELSE toks
           p == ParseCols(seen, 0, 0, row0)
           warn == IF p.cx # count THEN {"malformed: row column expected"} ELSE {}
       IN  /\ row_defects' = Append(row_defects, Defects(toks))
           /\ \/ /\ written_hi' = Max(written_hi, p.cx - 1)
                 /\ row_stores' = Append(row_stores,
                        [n |-> count, cx |-> p.cx, checked |-> p.err = "none"])
                 /\ IF p.err # "none"
                    THEN InitFails({p.err})
                    ELSE IF FloatLessThanOne(p.row[count - 1].prob_bound)
                    THEN InitFails(warn \cup {"Cummulative probability less than 1"})
                    ELSE /\ diag' = diag \cup warn
                         /\ kx' = kx + 1
                         /\ UNCHANGED count
                         /\ IF kx + 1 < count
                            THEN /\ mpc' = "rows"
                                 /\ entrys' = [entrys EXCEPT ![kx] = p.row]
                            ELSE /\ mpc' = "built"
                                 /\ entrys' = FillValues([entrys EXCEPT ![kx] = p.row],
                                                         count)
              \/ /\ p.cx > count
                 /\ written_hi' = Max(written_hi, count)
                 /\ row_stores' = Append(row_stores,
                        [n |-> count, cx |-> count + 1, checked |-> FALSE])
                 /\ mpc' = "ub"
                 /\ UNCHANGED <<count, kx, entrys, diag>>
    /\ UNCHANGED <<cell_float, cur_row, sampled, rnd, from_row, scan_lo, scan_hi, mret>>

\* ------------------------------------------------------ markov_graph_next
RECURSIVE ScanForwardPastTies(_, _, _)
\* the forward scan when it also steps over a bound equal to the draw
ScanForwardPastTies(row, r, ix) ==
    IF ix < count
    THEN IF row[ix].prob_bound <= r.q
         THEN ScanForwardPastTies(row, r, ix + 1)
         ELSE ix + 1
    ELSE ix

RECURSIVE ScanForward(_, _, _)
\* while ((ix < graph->count) && (tmp[cur_row][ix++].prob_bound < pull_rand)) {}
\* the value of ix when the loop is left                        (line 206)
ScanForward(row, r, ix) ==
    IF ix < count
    THEN IF BoundLessThan(row[ix].prob_bound, r)
         THEN ScanForward(row, r, ix + 1)
         ELSE ix + 1
    ELSE ix

RECURSIVE ScanBackward(_, _)
\* while (FloatEqualZero(tmp[cur_row][--ix].prob)) {}           (line 207)
\* the column the walk stops at, or the first column it reads outside the row
ScanBackward(row, ix) ==
    IF (ix - 1) \in DOMAIN row
    THEN IF FloatEqualZero(row[ix - 1].prob)
         THEN ScanBackward(row, ix - 1)
         ELSE [ix |-> ix - 1, inrow |-> TRUE]
    ELSE [ix |-> ix - 1, inrow |-> FALSE]

\* markov_graph_next for rand() = k                        (lines 201-210)
\* A graph without rows has entrys NULL, and a walk that leaves the row reads
\* memory that is not the row's: what that read returns decides where the
\* walk stops, so cur_row becomes any index from there down, and what follows
\* is not followed further (mpc = "ub").
MarkovGraphNext(k) ==
    /\ UNCHANGED iovars
    /\ mpc = "built"
    /\ sampled' = TRUE
    /\ rnd' = k
    /\ from_row' = cur_row
    /\ IF count = 0
       THEN /\ mpc' = "ub"
            /\ scan_lo' = -1
            /\ scan_hi' = -1
            /\ \E j \in 1..MaxUnder : cur_row' = -j
            /\ UNCHANGED mret
       ELSE LET row == entrys[cur_row]
                fwd == ScanForward(row, DrawOf[k], 0)
                back == ScanBackward(row, fwd)
            IN  /\ scan_lo' = back.ix
                /\ scan_hi' = Max(fwd - 1, back.ix)
                /\ IF back.inrow
                   THEN /\ cur_row' = back.ix
                        /\ mret' = entrys[back.ix][0].len
                        /\ UNCHANGED mpc
                   ELSE /\ mpc' = "ub"
                        /\ \E j \in 0..(MaxUnder - 1) : cur_row' = back.ix - j
                        /\ UNCHANGED mret
    /\ UNCHANGED <<cell_float, count, kx, entrys, diag, written_hi, row_defects,
                   row_stores>>

NextMarkov ==
    \/ \E n \in 0..MaxStates, w \in BOOLEAN : MarkovInitCount(n, w)
    \/ \E toks \in RowInputs(count) :
          \E junk \in [Len(toks)..(count - 1) -> JunkCells], ovf \in BOOLEAN :
             MarkovInitRow(toks, junk, ovf)
    \/ \E k \in Rands : MarkovGraphNext(k)

\* ---------------------------------------------------------- specifications
vars == <<iovars, mvars>>

Init == InitIO /\ InitMarkov

NextIO ==
    \/ \E n \in 1..MaxLen : ReadnCall(n)
    \/ ReadnLoop
    \/ \E r \in TransportResults(MaxLen) : ReadnRead(r)
    \/ \E n \in 1..MaxLen, f \in RecvFlags : RecvnCall(n, f)
    \/ RecvnLoop
    \/ \E r \in TransportResults(MaxLen) : RecvnPeekRecv(r)
    \/ \E t \in ProbeResults : RecvnPeekProbe(t)
    \/ \E r \in TransportResults(MaxLen) : RecvnRecv(r)
    \/ \E n \in 1..MaxLen : WritenCall(n)
    \/ WritenLoop
    \/ \E r \in TransportResults(MaxLen) : WritenWrite(r)
    \/ \E f \in WritemsgFns, n \in 1..MaxLen, d \in Delays, t \in TosValues,
          have \in BOOLEAN : WritemsgCall(f, n, d, t, have)
    \/ \E clock_ok \in BOOLEAN : WritemsgPrepare(clock_ok)
    \/ \E r \in SendResults(MaxLen) : WritemsgSent(r)
    \/ SetInterrupt
    \/ Return


\* the whole program: a worker samples the graph and moves bytes
Next == NextIO \/ NextMarkov

Spec == Init /\ [][Next]_vars

\* the socket primitives alone
SpecIO == Init /\ [][NextIO]_vars

\* the Markov graph alone
SpecMarkov == Init /\ [][NextMarkov]_vars

\* ------------------------------------------------- history of an invocation
RECURSIVE SumPos(_)
\* bytes moved by a sequence of transport answers: the sum of the positive ones
SumPos(s) ==
    IF s = <<>> THEN 0
    ELSE (IF s[Len(s)].n > 0 THEN s[Len(s)].n ELSE 0) + SumPos(SubSeq(s, 1, Len(s) - 1))

\* bytes moved before the i-th transport call was issued
MovedBefore(i) == SumPos(SubSeq(results, 1, i - 1))

IsError(r) == r.n = SOCKET_ERROR
IsEOF(r) == r.n = 0
RetryableErr(r) == IsError(r) /\ r.errno \in {"EINTR", "EAGAIN", "EWOULDBLOCK"}
Blocking == fn = "recvn" /\ flags # "MSG_PEEK"

\* the answers C1 allows: positive partial transfers and transient results
\* (EINTR for read; EINTR, would-block or a zero-byte write for write)
BenignFor(f, r) ==
    IF f = "readn" THEN r.n > 0 \/ (IsError(r) /\ r.errno = "EINTR")
                   ELSE r.n >= 0 \/ RetryableErr(r)

\* ---------------------------------------------------------------- claims

\* C1: with only positive partial transfers and transient results, no
\* end-of-stream, no fatal error and the flag never set, readn and writen
\* return exactly inLen once the partial transfers sum to inLen (and never
\* before, and no transport call is issued after), and every transport call
\* is issued for exactly the bytes still outstanding, at the position reached.
C1_TransferComplete ==
    (fn \in {"readn", "writen"} /\ ~sInterupted
        /\ \A i \in 1..Len(results) : BenignFor(fn, results[i]))
    => /\ \A i \in 1..Len(calls) :
            /\ calls[i].len = inLen - MovedBefore(i)
            /\ calls[i].off = MovedBefore(i)
       /\ pc = "done" => (ret = inLen /\ SumPos(results) = inLen)
       /\ SumPos(results) = inLen => pc \in {"loop", "done"}
       /\ SumPos(results) <= inLen

\* writen completed 2 or more bytes in several partial writes around a
\* would-block and returned the full length
C1_Witness ==
    /\ fn = "writen" /\ pc = "done" /\ ~sInterupted
    /\ inLen >= 2 /\ ret = inLen
    /\ \E i \in 1..Len(results) : RetryableErr(results[i])
    /\ \A i \in 1..Len(results) : results[i].n < inLen

\* C2: when end-of-stream comes after m < inLen bytes, in any split and with
\* any EINTRs in between, readn returns exactly m (never SOCKET_ERROR); recvn
\* in blocking mode returns the m bytes obtained so far on a peer close.
C2_ShortReadAtEOF ==
    ((fn = "readn" \/ Blocking) /\ pc = "done"
        /\ results # <<>> /\ IsEOF(results[Len(results)]))
    => /\ ret = SumPos(results)
       /\ ret >= 0 /\ ret < inLen
       /\ ret # SOCKET_ERROR

\* readn met end-of-stream after a partial read and a signal interruption
C2_Witness ==
    /\ fn = "readn" /\ pc = "done"
    /\ Len(results) >= 3 /\ IsEOF(results[Len(results)])
    /\ \E i \in 1..Len(results) : IsError(results[i])
    /\ ret > 0

\* the transport calls of a recvn or writen invocation that were issued with
\* the flag already set: at most one, and only the probe of a peek iteration
\* whose peek was issued before the flag was set
OnlyProbeAfterInterrupt ==
    fn \in {"recvn", "writen"}
    => /\ \A i \in 1..Len(calls) :
            calls[i].intr => (calls[i].op = "probe" /\ ~calls[i - 1].intr)
       /\ Cardinality({i \in 1..Len(calls) : calls[i].intr}) <= 1

\* C3: once the flag is set during recvn (either mode) or writen, no new
\* loop iteration starts: the only transport call that can still be issued is
\* the probe that belongs to the peek iteration already in flight, and the
\* loop test that follows returns.
C3_NoIterationAfterInterrupt ==
    /\ []OnlyProbeAfterInterrupt
    /\ [][(fn \in {"recvn", "writen"} /\ pc = "loop" /\ sInterupted)
            => (pc' = "done" /\ calls' = calls)]_iovars

\* writen was cut short: the flag came while bytes were outstanding, after a
\* partial write, and the call returned the short count
C3_Witness ==
    /\ fn = "writen" /\ pc = "done" /\ sInterupted
    /\ results # <<>> /\ results[Len(results)].n > 0
    /\ nleft > 0 /\ ret = inLen - nleft

\* C4 as stated: at its loop test with the flag set, each of the three
\* primitives returns instead of issuing another transport call.
C4_AllThreeAbort ==
    [][(fn # "none" /\ pc = "loop" /\ sInterupted) => pc' = "done"]_iovars

\* C4 amended: with the flag set, recvn and writen return at their loop test;
\* readn does not look at the flag: with bytes outstanding it issues the next
\* read all the same.
C4_OnlyRecvnWritenAbort ==
    [][(fn # "none" /\ pc = "loop" /\ sInterupted)
        => IF fn = "readn" THEN (nleft > 0 => pc' = "call")
                           ELSE pc' = "done"]_iovars

\* readn issued a read although the flag was already set
C4_Witness ==
    /\ fn = "readn" /\ pc = "call" /\ sInterupted
    /\ calls[Len(calls)].intr

BuiltFromValidRows ==
    mpc \in {"built", "ub"} /\ count >= 1 /\ diag = {} /\ written_hi < count

\* the draw of the last markov_graph_next
LastDraw == DrawOf[rnd]

\* the draw r is below the fraction num/den.  A draw that carries a fraction
\* of a unit is below 2^-4, under every fraction it is compared with here.
DrawLess(r, num, den) ==
    LET t == (num * ONE) \div den
    IN  r.q < t \/ (r.q = t /\ t * den # num * ONE /\ ~r.f)

\* the draw r equals the stored bound b; is at most b
DrawEquals(r, b) == r.q = b /\ ~r.f
DrawAtMost(r, b) == r.q < b \/ DrawEquals(r, b)

RECURSIVE RowSum(_, _)
\* the sum of the first n stored probabilities of a row
RowSum(row, n) == IF n = 0 THEN 0 ELSE RowSum(row, n - 1) + row[n - 1].prob

\* the graph of <256|0.1,0.7,0.2<1024|0.3,0.4,0.3<1470|0.4,0.4,0.2
IsExample ==
    /\ mpc = "built" /\ count = Len(ExampleRows) /\ diag = {}
    /\ \A i \in 0..(count - 1), j \in 0..(count - 1) :
          entrys[i][j].prob = FloatOf[ExampleRows[i + 1][j + 1].d]

\* C7 as stated: for every successfully built graph of valid rows the cursor
\* is 0 after construction and stays an index in [0, n) after any sequence of
\* next() calls, for every draw; the scan of next() never reads a column
\* outside [0, n).
C7_CursorInRange ==
    BuiltFromValidRows
    => /\ cur_row \in 0..(count - 1)
       /\ ~sampled => cur_row = 0
       /\ sampled => (scan_lo >= 0 /\ scan_hi <= count - 1)

\* C8 as stated: in the example graph, from state 0, a draw r < 0.1 gives
\* column 0 (256), 0.1 <= r < 0.8 gives column 1 (1024), 0.8 <= r < 1.0
\* gives column 2 (1470).
C8_ExampleThresholds ==
    (IsExample /\ sampled /\ from_row = 0)
    => /\ DrawLess(LastDraw, 1, 10) => (cur_row = 0 /\ mret = 256)
       /\ (~DrawLess(LastDraw, 1, 10) /\ DrawLess(LastDraw, 8, 10))
             => (cur_row = 1 /\ mret = 1024)
       /\ (~DrawLess(LastDraw, 8, 10) /\ DrawLess(LastDraw, 1, 1))
             => (cur_row = 2 /\ mret = 1470)

\* C8, amended: in the example graph, from state 0, the thresholds are the
\* stored bounds b0 = 0.1f and b1 = 0.1f + 0.7f as the cell holds it, and a
\* draw equal to a bound goes to the lower column: r <= b0 gives column 0
\* (256), b0 < r <= b1 gives column 1 (1024), b1 < r gives column 2 (1470).
C8_ExampleStoredBounds ==
    (IsExample /\ sampled /\ from_row = 0)
    => LET b0 == FloatOf[100000]
           b1 == StoreBound(FloatOf[100000] + FloatOf[700000])
       IN  /\ DrawAtMost(LastDraw, b0) => (cur_row = 0 /\ mret = 256)
           /\ (~DrawAtMost(LastDraw, b0) /\ DrawAtMost(LastDraw, b1))
                 => (cur_row = 1 /\ mret = 1024)
           /\ ~DrawAtMost(LastDraw, b1) => (cur_row = 2 /\ mret = 1470)

\* the example graph, from state 0, drew exactly 0.1f, which is not below
\* 0.1, and went to column 0
C8_Witness ==
    /\ IsExample /\ sampled /\ from_row = 0
    /\ rnd = 214748368
    /\ ~DrawLess(LastDraw, 1, 10)
    /\ cur_row = 0 /\ mret = 256

\* C9: in a row of a graph built from valid rows, a column of probability
\* zero that lies between two columns of positive probability is never the
\* column next() selects, for any draw; and a draw equal to a bound that
\* columns share selects the nearest column at or before them that has
\* positive probability.
C9_ZeroColumnNeverSelected ==
    (BuiltFromValidRows /\ sampled)
    => LET row == entrys[from_row]
           Zero(c) == FloatEqualZero(row[c].prob)
       IN  /\ \A c \in 0..(count - 1) :
                (/\ Zero(c)
                 /\ \E a \in 0..(c - 1) : ~Zero(a)
                 /\ \E b \in (c + 1)..(count - 1) : ~Zero(b))
                => cur_row # c
           /\ \A c \in 0..(count - 1) :
                (/\ DrawEquals(LastDraw, row[c].prob_bound)
                 /\ \E a \in 0..c : ~Zero(a))
                => /\ cur_row \in 0..c
                   /\ ~Zero(cur_row)
                   /\ \A j \in (cur_row + 1)..c : Zero(j)

\* the row 0.5, 0.000009, 0.5 drew exactly 0.5, the bound its first two
\* columns share, and column 0 was selected
C9_Witness ==
    /\ BuiltFromValidRows /\ sampled /\ mpc = "built" /\ count = 3
    /\ from_row = 0
    /\ ~FloatEqualZero(entrys[0][0].prob)
    /\ FloatEqualZero(entrys[0][1].prob)
    /\ ~FloatEqualZero(entrys[0][2].prob)
    /\ entrys[0][0].prob_bound = entrys[0][1].prob_bound
    /\ DrawEquals(LastDraw, entrys[0][1].prob_bound)
    /\ cur_row = 0

\* C10 as stated: in every graph markov_graph_init returns, every row's n
\* stored probabilities sum to 1.0 within 1e-5, also when the row has
\* probabilities below the tolerance or gave fewer than n probabilities.
C10_RowSumsToOne ==
    (mpc = "built" /\ count >= 1)
    => \A rx \in 0..(count - 1) :
          Abs(RowSum(entrys[rx], count) - ONE) <= FLOATTOLERANCE

\* C11 as stated: markov_graph_init fails and returns no graph whenever a
\* row of the specification has a non-numeric token, a probability outside
\* [0,1], a running bound above 1.0 or a final bound short of 1.0 (beyond
\* the tolerance); it stops at the first such row, parsing none after it.
C11_DefectFails ==
    \A i \in 1..Len(row_defects) :
       row_defects[i] # {} => (mpc = "failed" /\ i = Len(row_defects))

\* C12 as stated: every graph markov_graph_init returns has n >= 1 states
\* and an n x n matrix; no graph with zero states is returned, not even for
\* a specification without a declaration.
C12_AtLeastOneState ==
    mpc = "built"
    => /\ count >= 1
       /\ DOMAIN entrys = 0..(count - 1)
       /\ \A rx \in 0..(count - 1) : DOMAIN entrys[rx] = 0..(count - 1)

\* C13 as stated: in every built graph and every row the cumulative bound
\* does not decrease from column 0 to column n-1, each bound is the running
\* sum of the row's probabilities up to its column (to the tolerance), and
\* the bound of column n-1 is within 1e-5 of 1.0.
C13_BoundsRunningSum ==
    (mpc = "built" /\ count >= 1)
    => \A rx \in 0..(count - 1) :
          LET row == entrys[rx]
          IN  /\ \A cx \in 1..(count - 1) :
                    row[cx - 1].prob_bound <= row[cx].prob_bound
              /\ \A cx \in 0..(count - 1) :
                    Abs(row[cx].prob_bound - RowSum(row, cx + 1)) <= FLOATTOLERANCE
              /\ Abs(row[count - 1].prob_bound - ONE) <= FLOATTOLERANCE

\* ------------------------------------------------------------------------
\* The socket primitives, continued

\* C14 as stated: a recvn call with MSG_PEEK takes nothing off the handle's
\* receive queue, whatever the peeks and the probes answer: what is queued
\* after the call is what was queued before it and what arrived meanwhile.
C14_PeekTakesNothing ==
    (fn = "recvn" /\ flags = "MSG_PEEK") => taken = <<>>

\* a recvn call with MSG_PEEK has returned
PeekDone == fn = "recvn" /\ flags = "MSG_PEEK" /\ pc = "done"

\* the last transport call of the invocation was op and was answered n
LastWas(op, n) ==
    /\ Len(results) >= 1 /\ Len(results) = Len(calls)
    /\ calls[Len(calls)].op = op
    /\ results[Len(results)].n = n

\* the last transport call was the probe, answered would-block
LastProbeWouldBlock ==
    /\ Len(results) >= 1 /\ Len(results) = Len(calls)
    /\ calls[Len(calls)].op = "probe"
    /\ results[Len(results)].errno \in {"EAGAIN", "EWOULDBLOCK"}

\* the last transport call was a peek that found some but not all bytes
LastPeekPartial ==
    /\ Len(results) >= 1 /\ Len(results) = Len(calls)
    /\ calls[Len(calls)].op = "peek"
    /\ results[Len(results)].n > 0 /\ results[Len(results)].n < inLen

LackingDone ==
    /\ fn \in WritemsgFns /\ pc = "done" /\ delay_ns > 0
    /\ \/ ~have_txtime
       \/ Len(results) = 1 /\ results[1].n < 0 /\ results[1].errno = "EINVAL"

\* the bytes the transport accepted in this invocation
Delivered == SumPos(results)

\* C16 as stated: where the scheduling capability is lacking (stub build,
\* or handle not configured), writemsg_delay_tos with a nonzero delay still
\* delivers all inLen bytes and returns inLen, also when the write accepts
\* only part of the buffer.
C16_FallbackDeliversAll ==
    LackingDone => (ret = inLen /\ Delivered = inLen)

\* C16, amended: in the stub build a call with a nonzero delay warns, issues
\* one write of the whole buffer and returns that write's answer: inLen when
\* all was accepted, the smaller count when part was (the rest is not
\* sent), -1 when it failed.  With the handle not configured (sendmsg
\* answers EINVAL) nothing is delivered, no write is tried and -1 returned.
C16_FallbackIsOneWrite ==
    LackingDone
    => /\ Len(calls) = 1 /\ Len(results) = 1
       /\ calls[1].off = 0 /\ calls[1].len = inLen
       /\ ~have_txtime
            => /\ calls[1].op = "write"
               /\ ret = results[1].n
               /\ Delivered = (IF ret > 0 THEN ret ELSE 0)
               /\ Len(errlog) = 1
       /\ have_txtime
            => /\ calls[1].op = "sendmsg"
               /\ ret = -1
               /\ Delivered = 0

\* the stub's write accepted part of the buffer and the call returned the
\* partial count
C16_Witness ==
    /\ LackingDone /\ ~have_txtime
    /\ ret > 0 /\ ret < inLen
    /\ Delivered = ret

\* C17: every writemsg_delay_tos, writemsg_tos and writemsg_delay call
\* issues at most one send call, whatever it answers; after a failed send
\* the call has returned -1 without another send, and after a clock failure
\* it has returned -1 without any send.
C17_SingleSend ==
    fn \in WritemsgFns
    => /\ Len(calls) <= 1
       /\ (Len(results) = 1 /\ results[1].n < 0)
            => (pc = "done" /\ ret = -1 /\ Len(calls) = 1)
       /\ (\E i \in 1..Len(errlog) : errlog[i] = "writemsg_delay clock_gettime failed")
            => (pc = "done" /\ ret = -1 /\ calls = <<>>)

\* a sendmsg carrying the transmit-time record failed with EPERM and the
\* call returned -1 after that one send
C17_Witness ==
    /\ fn \in WritemsgFns /\ pc = "done" /\ have_txtime
    /\ Len(calls) = 1 /\ calls[1].op = "sendmsg"
    /\ calls[1].ctl = <<"SCM_TXTIME">>
    /\ results[1].n < 0 /\ results[1].errno = "EPERM"
    /\ ret = -1

\* C18 as stated: no call of readn, recvn, writen or the writemsg entry
\* points returns an error value (SOCKET_ERROR for a fatal error, the
\* non-fatal sentinel) without having written a diagnostic to the standard
\* error stream first.
C18_FailureHasDiagnostic ==
    (pc = "done" /\ ret \in {SOCKET_ERROR, IPERF_SOCKET_ERROR_NONFATAL})
    => errlog # <<>>

\* ------------------------------------------------------------------------
\* The Markov graph, continued

\* C19: in a built graph the value of cell (row, col) is the declared length
\* of state col, for every row and column, and a markov_graph_next call
\* returns the declared length of the state the cursor has arrived at, not
\* of the state it left.  (Stated for builds that stored inside the matrix
\* only: after a store outside it nothing about the heap is known.)
C19_LabelsAndReturn ==
    (mpc \in {"built", "ub"} /\ count >= 1 /\ written_hi < count)
    => /\ \A rx \in 0..(count - 1), cx \in 0..(count - 1) :
             entrys[rx][cx].value = LabelOf(cx)
       /\ (sampled /\ cur_row \in 0..(count - 1)) => mret = LabelOf(cur_row)

\* a call moved the cursor from state 0 to state 2 and returned the length
\* of state 2, which is not that of state 0
C19_Witness ==
    /\ mpc = "built" /\ count = 3 /\ sampled
    /\ from_row = 0 /\ cur_row = 2
    /\ mret = LabelOf(2) /\ mret # LabelOf(0)
    /\ entrys[0][2].value = LabelOf(2)

\* ------------------------------------------------------------------------
\* The socket primitives: the flag after a fatal receive error

\* the invocation in progress is the recvn call that met the fatal error
\* and has returned it
ReturnedFatal ==
    /\ fn = "recvn" /\ pc = "done" /\ ret = SOCKET_ERROR
    /\ Len(results) >= 1
    /\ results[Len(results)].n = SOCKET_ERROR
    /\ FATALTCPREADERR(results[Len(results)].errno)

\* once a recvn call has met a fatal error the flag is set, and a recvn or
\* writen call is either that very call, returned with the error, or a later
\* one, which issues no transport call and returns 0
AfterFatalNoTransfer ==
    fatal_seen
    => /\ sInterupted
       /\ fn \in {"recvn", "writen"}
            => \/ ReturnedFatal
               \/ calls = <<>> /\ (pc = "done" => ret = 0)

\* C20: a fatal transport error inside recvn, in either mode, sets the
\* interrupt flag before the error is returned; no primitive clears the
\* flag; so after one fatal receive error every later recvn or writen call
\* returns 0 without issuing a transport call.
C20_FatalStopsLaterCalls ==
    /\ []AfterFatalNoTransfer
    /\ [][sInterupted => sInterupted']_vars
    /\ [][(fn = "recvn" /\ pc = "call" /\ pc' = "done" /\ ret' = SOCKET_ERROR)
            => sInterupted']_vars

\* after a fatal receive error in an earlier call, a writen call has
\* returned 0 without a single write
C20_Witness ==
    /\ fatal_seen /\ sInterupted
    /\ fn = "writen" /\ pc = "done"
    /\ calls = <<>> /\ wcount = 0 /\ ret = 0

\* ------------------------------------------------------------------------
\* The Markov graph: the cells the build touches

\* every row parse stored to columns of its row only: line 144 never had
\* cx >= bracnt
NoStorePastRow ==
    \A i \in 1..Len(row_stores) : row_stores[i].cx <= row_stores[i].n

\* whenever the end-of-row check of line 174 read tmp[kx][bracnt-1], the
\* parse of that row had stored to that cell
CheckReadsWrittenCell ==
    \A i \in 1..Len(row_stores) :
       row_stores[i].checked => row_stores[i].cx >= row_stores[i].n

\* C21 as stated: while building a graph of n declared states,
\* markov_graph_init writes only cells whose row and column are in [0, n): a
\* row that lists more than n probabilities causes no write to a column
\* index >= n; and the end-of-row completeness check reads only a cell that
\* was written for that row.
C21_WritesInMatrix == NoStorePastRow /\ CheckReadsWrittenCell
====
